---- MODULE Spec2Model ----
(***************************************************************************)
(* A model of tracing-gui: the log store (src/src/logs.rs), the background *)
(* processor thread and the shell operations that talk to it               *)
(* (src/src/main.rs).                                                      *)
(*                                                                         *)
(* Representation choices                                                  *)
(*  - An IString is an Arc<str> compared by address.  The interner is the  *)
(*    sequence of the strings it has allocated, in allocation order, and a *)
(*    handle is the index of its allocation: two handles are equal iff     *)
(*    they are the same allocation.  Str(log, h) is the Deref to content.  *)
(*  - A Value is a record [t, s, i]: t is the variant ("S", "I", "B"), s   *)
(*    the string payload of S, i the payload of I (and 0/1 for B).  An     *)
(*    IValue is [t, h, i] with h the handle of the S payload.              *)
(*  - A PseudoMap is the sequence of its (k, v) pairs, a pair being the    *)
(*    record [k, v].                                                       *)
(*  - One line of input text is a record: [kind |-> "blank"], a line that  *)
(*    is empty after trim; [kind |-> "garbage"], text serde_json rejects;  *)
(*    [kind |-> "bad_read"], bytes read_line cannot decode; or             *)
(*    [kind |-> "json", ...], the text of one JSON object, whose "spans"   *)
(*    member may be absent (has_spans = FALSE).                            *)
(***************************************************************************)
EXTENDS Integers, Sequences, FiniteSets, TLC

VARIABLES
    logs,                \* Logs.inner: the LogsInner behind the store mutex
    panicked,            \* "none", or the call whose panic poisoned the mutex it held
    task,                \* the task mailbox: Mutex<Option<ProcessorTask>>
    status,              \* the shared ProcessorStatus
    pc,                  \* where run_processor stands
    path,                \* run_processor: the path of the task being executed
    file_pos,            \* run_processor: lines of the file consumed by buf_read
    lines_since_checkin, \* run_processor: the local counter of that name
    cur_line,            \* run_processor: the local String buffer, as a sequence of lines
    cur_status,          \* App.cur_status
    available_paths,     \* App.settings.available_paths
    cur_span,            \* App.tree_logs_ui.cur_span
    text,                \* the result of the shell's last string_query
    posts,               \* history: number of tasks the shell has posted
    taken,               \* history: the task run_processor took last, with its post number
    hist,                \* history: counters of the current OpenLogs run
    last_op,             \* history: the last operation on the store
    held,                \* the mutex guards each thread holds between two steps
    notified             \* a notify_one has reached the processor in condvar.wait

vars == <<logs, panicked, task, status, pc, path, file_pos, lines_since_checkin,
          cur_line, cur_status, available_paths, cur_span, text, posts, taken, hist,
          last_op, held, notified>>

syncVars == <<held, notified>>

procVars == <<task, status, pc, path, file_pos, lines_since_checkin, cur_line,
              cur_status, available_paths, posts, taken, hist>>

(***************************************************************************)
(* Bounds of the model.                                                    *)
(***************************************************************************)
MaxMessages == 3    \* add_json_message is not called on a store holding this many messages
MaxPosts == 3       \* the shell posts at most this many tasks
MaxSpin == 3        \* reads at end of file the model follows (see SpinCap)
MaxRendered == 2    \* SpecRender does not call add_json_message on a store holding this many messages
MaxLockPosts == 2   \* SpecLocks: the shell starts no post after this many
MaxNamed == 2       \* SpecNaming does not call add_json_message on a store holding this many messages

(***************************************************************************)
(* Option values.                                                          *)
(***************************************************************************)
None == [some |-> FALSE]
Some(v) == [some |-> TRUE, v |-> v]

(***************************************************************************)
(* Values and input lines.                                                 *)
(***************************************************************************)
VS(s) == [t |-> "S", s |-> s, i |-> 0]
VI(i) == [t |-> "I", s |-> "", i |-> i]
KV(k, v) == [k |-> k, v |-> v]

JsonLine(timestamp, level, fields, target) ==
    [kind |-> "json", timestamp |-> timestamp, level |-> level, fields |-> fields,
     target |-> target, has_spans |-> FALSE, spans |-> <<>>]
JsonLineSpans(timestamp, level, fields, target, spans) ==
    [kind |-> "json", timestamp |-> timestamp, level |-> level, fields |-> fields,
     target |-> target, has_spans |-> TRUE, spans |-> spans]
BlankLine == [kind |-> "blank"]
GarbageLine == [kind |-> "garbage"]
BadReadLine == [kind |-> "bad_read"]

\* {"timestamp":"t1","level":"INFO","fields":{"message":"m1"},"target":"a"}
LineM1 == JsonLine("t1", "INFO", <<KV("message", VS("m1"))>>, "a")
\* {"timestamp":"t2","level":"ERROR","fields":{"message":"m2"},"target":"a","spans":[{"name":"s"}]}
LineM2 == JsonLineSpans("t2", "ERROR", <<KV("message", VS("m2"))>>, "a",
                        << <<KV("name", VS("s"))>> >>)
\* the line of test_parse_json_message_spans, shortened to one field
LineYak == JsonLineSpans("2022-02-15T18:47:10.821495Z", "TRACE",
                         <<KV("message", VS("hello")), KV("excitement", VS("yay!"))>>,
                         "fmt_json::yak_shave",
                         << <<KV("yaks", VI(3)), KV("name", VS("shaving_yaks"))>>,
                            <<KV("yak", VI(1)), KV("name", VS("shave"))>> >>)
\* a message inside the outer span of LineYak only
LineOuter == JsonLineSpans("t3", "loud", <<KV("message", VS("m3"))>>, "a",
                           << <<KV("yaks", VI(3)), KV("name", VS("shaving_yaks"))>> >>)

StoreLines == {LineM1, LineM2, LineYak, GarbageLine}

\* lines that differ in their one span context only
NamingLine(context) ==
    JsonLineSpans("2022-02-15T18:47:10.821495Z", "TRACE", <<KV("message", VS("hello"))>>,
                  "fmt_json::yak_shave", <<context>>)
\* the context of test_parse_json_message_dupe_name
CtxDupeName == <<KV("name", VS("real_name")), KV("yaks", VI(3)), KV("name", VS("shaving_yaks"))>>
\* the same without the duplicated key
CtxNoDupe == <<KV("yaks", VI(3)), KV("name", VS("shaving_yaks"))>>
\* the pairs of CtxNoDupe in the other order: the "name" pair is not the last pair
CtxNameFirst == <<KV("name", VS("shaving_yaks")), KV("yaks", VI(3))>>
CtxNoName == <<KV("yaks", VI(3))>>
CtxNameEmpty == <<KV("name", VS(""))>>
CtxNameInt == <<KV("name", VI(3))>>
NamingContexts == {CtxDupeName, CtxNoDupe, CtxNameFirst, CtxNoName, CtxNameEmpty, CtxNameInt}
NamingLines == {NamingLine(context) : context \in NamingContexts}

\* lines that differ in whether their timestamp and their level parse
RenderLine(timestamp, level) == JsonLine(timestamp, level, <<KV("message", VS("m"))>>, "a")
RenderLines == {RenderLine(timestamp, level) :
                    timestamp \in {"2022-02-15T18:47:10.821495Z", "t1"},
                    level \in {"INFO", "loud"}}

(***************************************************************************)
(* MyMapVisitor::visit_map: every entry of the object, in the order of the *)
(* text, is pushed onto vals; an entry whose key came before is pushed too.*)
(***************************************************************************)
\* a visitor that builds a map: of the entries with one key the last is kept
VisitMapLastWins(entries) ==
    LET kept == {n \in 1..Len(entries) :
                    \A m \in (n + 1)..Len(entries) : entries[m].k # entries[n].k}
        Nth[i \in 0..Len(entries)] ==
            IF i = 0 THEN 0 ELSE CHOOSE n \in kept : n > Nth[i - 1]
                                     /\ \A m \in kept : m > Nth[i - 1] => n <= m
    IN  [i \in 1..Cardinality(kept) |-> entries[Nth[i]]]

RECURSIVE VisitMapFrom(_, _, _)
VisitMapFrom(entries, n, vals) ==
    IF n > Len(entries)
    THEN vals
    ELSE VisitMapFrom(entries, n + 1, Append(vals, entries[n]))

VisitMap(entries) == VisitMapFrom(entries, 1, <<>>)

(***************************************************************************)
(* serde_json::from_str::<JsonMessage>: Err for text that is no JSON       *)
(* object of the expected shape; "spans" defaults to the empty list.       *)
(***************************************************************************)
ParseJsonMessage(input) ==
    IF input.kind = "json"
    THEN Some([timestamp |-> input.timestamp, level |-> input.level,
               fields |-> VisitMap(input.fields), target |-> input.target,
               spans |-> IF input.has_spans
                         THEN [n \in 1..Len(input.spans) |-> VisitMap(input.spans[n])]
                         ELSE <<>>])
    ELSE None

(***************************************************************************)
(* The interner.                                                           *)
(***************************************************************************)
Str(log, h) == log.interner[h]

Lookup(interner, val) == CHOOSE i \in 1..Len(interner) : interner[i] = val

\* an interner that allocates on every call
InternStrAlwaysNew(interner, val) ==
    [interner |-> Append(interner, val), h |-> Len(interner) + 1]

InternStr(interner, val) ==
    IF \E i \in 1..Len(interner) : interner[i] = val
    THEN [interner |-> interner, h |-> Lookup(interner, val)]
    ELSE [interner |-> Append(interner, val), h |-> Len(interner) + 1]

InternVal(interner, val) ==
    IF val.t = "S"
    THEN LET r == InternStr(interner, val.s)
         IN  [interner |-> r.interner, v |-> [t |-> "S", h |-> r.h, i |-> 0]]
    ELSE [interner |-> interner, v |-> [t |-> val.t, h |-> 0, i |-> val.i]]

RECURSIVE InternPseudoFrom(_, _, _, _)
InternPseudoFrom(interner, vals, n, acc) ==
    IF n > Len(vals)
    THEN [interner |-> interner, vals |-> acc]
    ELSE LET k == InternStr(interner, vals[n].k)
             v == InternVal(k.interner, vals[n].v)
         IN  InternPseudoFrom(v.interner, vals, n + 1, Append(acc, KV(k.h, v.v)))

InternPseudo(interner, val) == InternPseudoFrom(interner, val, 1, <<>>)

(***************************************************************************)
(* LogsInner::new.                                                         *)
(***************************************************************************)
ROOT_SPAN == 0
JSON_MESSAGE_KEY == "message"
JSON_SPAN_NAME_KEY == "name"
ROOT_SPAN_NAME == "<all spans>"

EmptyKeys == [k \in {} |-> 0]

NoQuery == [kind |-> "None", span |-> 0]
QueryAll == [kind |-> "All", span |-> 0]
QuerySpan(id) == [kind |-> "Span", span |-> id]

NoString == [some |-> FALSE, text |-> ""]

SpanEntry(name, fields) ==
    [name |-> name, fields |-> fields, events |-> <<>>, json_subspan_keys |-> EmptyKeys]

EventSpan(id) == [kind |-> "Span", id |-> id]
EventMessage(id) == [kind |-> "Message", id |-> id]

LogsInnerNew ==
    LET r1 == InternStr(<<>>, ROOT_SPAN_NAME)
        r2 == InternStr(r1.interner, JSON_MESSAGE_KEY)
        r3 == InternStr(r2.interner, JSON_SPAN_NAME_KEY)
        r4 == InternStr(r3.interner, "")
    IN  [root_span |-> ROOT_SPAN,
         spans |-> (ROOT_SPAN :> SpanEntry(r1.h, <<>>)),
         messages |-> [m \in {} |-> 0],
         last_query |-> NoQuery,
         cur_string |-> NoString,
         next_span_id |-> 1,
         next_message_id |-> 0,
         interner |-> r4.interner,
         i_message |-> r2.h,
         i_name |-> r3.h,
         i_empty |-> r4.h]

(***************************************************************************)
(* Rendering: print_indent, print_val, print_span_header,                  *)
(* print_span_recursive.  The output String is a TLA+ string.              *)
(***************************************************************************)
RECURSIVE Spaces(_)
Spaces(n) == IF n = 0 THEN "" ELSE " " \o Spaces(n - 1)

PrintIndent(depth) == Spaces(depth * 4)

PrintVal(log, val) ==
    CASE val.t = "S" -> Str(log, val.h)
      [] val.t = "B" -> IF val.i = 1 THEN "true" ELSE "false"
      [] OTHER -> ToString(val.i)

RECURSIVE PrintHeaderFields(_, _, _)
PrintHeaderFields(log, vals, n) ==
    IF n > Len(vals) THEN ""
    ELSE ", " \o Str(log, vals[n].k) \o " = " \o PrintVal(log, vals[n].v)
         \o PrintHeaderFields(log, vals, n + 1)

PrintSpanHeader(log, depth, span) ==
    IF Str(log, span.name) # ""
    THEN PrintIndent(depth) \o "[" \o Str(log, span.name)
         \o PrintHeaderFields(log, span.fields, 1) \o "]\n"
    ELSE ""

\* "{:5}" of a tracing::Level: the name, padded on the right to 5 characters
PadLevel(level) == level \o Spaces(5 - Len(level))

\* DateTime::to_rfc3339_opts(SecondsFormat::Millis, true) of a parsed instant
\* (shown for a local offset of zero)
FormatTimestamp(ts) ==
    IF ts = "2022-02-15T18:47:10.821495Z" THEN "2022-02-15T18:47:10.821Z" ELSE ts

RECURSIVE PrintMessageFields(_, _, _)
PrintMessageFields(log, vals, n) ==
    IF n > Len(vals) THEN ""
    ELSE (IF vals[n].k # log.i_message
          THEN "[" \o Str(log, vals[n].k) \o " = " \o PrintVal(log, vals[n].v) \o "] "
          ELSE "")
         \o PrintMessageFields(log, vals, n + 1)

\* .find(|(k, _v)| k == &this.i_message): the first pair with that key
FindMessage(log, vals) ==
    IF \E n \in 1..Len(vals) : vals[n].k = log.i_message
    THEN LET first == CHOOSE n \in 1..Len(vals) :
                          /\ vals[n].k = log.i_message
                          /\ \A m \in 1..(n - 1) : vals[m].k # log.i_message
         IN  Some(vals[first].v)
    ELSE None

PrintMessage(log, depth, entry) ==
    LET message == FindMessage(log, entry.fields)
    IN  PrintIndent(depth + 1)
        \o (IF entry.level.some THEN "[" \o PadLevel(entry.level.v) \o "] " ELSE "      ")
        \o (IF entry.timestamp.some
            THEN "[" \o FormatTimestamp(entry.timestamp.v) \o "] " ELSE "")
        \o PrintMessageFields(log, entry.fields, 1)
        \o (IF message.some THEN PrintVal(log, message.v) ELSE "")
        \o "\n"

RECURSIVE PrintSpanRecursive(_, _, _)
RECURSIVE PrintEvents(_, _, _, _)
PrintEvents(log, depth, events, n) ==
    IF n > Len(events) THEN ""
    ELSE (IF events[n].kind = "Message"
          THEN PrintMessage(log, depth, log.messages[events[n].id])
          ELSE PrintSpanRecursive(log, depth + 1, log.spans[events[n].id]))
         \o PrintEvents(log, depth, events, n + 1)

PrintSpanRecursive(log, depth, span) ==
    PrintSpanHeader(log, depth, span) \o PrintEvents(log, depth, span.events, 1)

(***************************************************************************)
(* Logs::clear.                                                            *)
(***************************************************************************)
\* a clear that leaves the events of the root as they are
ClearKeepsRootEvents(log) ==
    [log EXCEPT !.spans = (log.root_span :> log.spans[log.root_span]),
                !.messages = [m \in {} |-> 0],
                !.cur_string = NoString,
                !.next_message_id = 0,
                !.next_span_id = 1]

\* a clear that goes on counting ids where the last generation stopped
ClearKeepsCounters(log) ==
    LET root == [log.spans[log.root_span] EXCEPT !.events = <<>>]
    IN  [log EXCEPT !.spans = (log.root_span :> root),
                    !.messages = [m \in {} |-> 0],
                    !.cur_string = NoString]

\* a clear that forgets to drop the cached text
ClearKeepsCache(log) ==
    LET root == [log.spans[log.root_span] EXCEPT !.events = <<>>]
    IN  [log EXCEPT !.spans = (log.root_span :> root),
                    !.messages = [m \in {} |-> 0],
                    !.next_message_id = 0,
                    !.next_span_id = 1]

Clear(log) ==
    LET root == [log.spans[log.root_span] EXCEPT !.events = <<>>]
    IN  [log EXCEPT !.spans = (log.root_span :> root),
                    !.messages = [m \in {} |-> 0],
                    !.cur_string = NoString,
                    !.next_message_id = 0,
                    !.next_span_id = 1]

(***************************************************************************)
(* Logs::string_query.  The result: ok = FALSE when the indexing of spans  *)
(* panics (the id is not in the map); otherwise the text returned, and     *)
(* whether it was computed by this call.                                   *)
(***************************************************************************)
\* a cache that answers every query with the text it holds
StringQueryIgnoresQuery(log, query) ==
    IF log.cur_string.some
    THEN [ok |-> TRUE, log |-> log, text |-> log.cur_string.text, computed |-> FALSE]
    ELSE LET id == IF query.kind = "All" THEN log.root_span ELSE query.span
             output == PrintSpanRecursive(log, 0, log.spans[id])
         IN  [ok |-> TRUE,
              log |-> [log EXCEPT !.last_query = query,
                                  !.cur_string = [some |-> TRUE, text |-> output]],
              text |-> output, computed |-> TRUE]

StringQuery(log, query) ==
    IF query = log.last_query /\ log.cur_string.some
    THEN [ok |-> TRUE, log |-> log, text |-> log.cur_string.text, computed |-> FALSE]
    ELSE LET log1 == [log EXCEPT !.last_query = query]
             id == IF query.kind = "All" THEN log.root_span ELSE query.span
         IN  IF id \notin DOMAIN log1.spans
             THEN [ok |-> FALSE, log |-> log1, text |-> "", computed |-> FALSE]
             ELSE LET output == PrintSpanRecursive(log1, 0, log1.spans[id])
                  IN  [ok |-> TRUE,
                       log |-> [log1 EXCEPT !.cur_string = [some |-> TRUE, text |-> output]],
                       text |-> output, computed |-> TRUE]

(***************************************************************************)
(* LogsInner::add_json_message.  The result: ok = FALSE when an unwrap of  *)
(* spans.get_mut(&cur_span_id) panics; log is the store as the call left   *)
(* it.                                                                     *)
(***************************************************************************)
ParseTimestamp(s) == IF s = "2022-02-15T18:47:10.821495Z" THEN Some(s) ELSE None

ParseLevel(s) == IF s \in {"ERROR", "WARN", "INFO", "DEBUG", "TRACE"} THEN Some(s) ELSE None

\* the name of a new span: the value of the last pair, if that is a string under "name"
SpanName(log, key) ==
    IF Len(key) > 0 /\ key[Len(key)].v.t = "S" /\ key[Len(key)].k = log.i_name
    THEN key[Len(key)].v.h
    ELSE log.i_empty

\* fields that keep the pair the name was taken from
SpanFieldsKeepsAll(log, key, name) == key

\* the fields of a new span: the key, without its last pair when the name is not empty
SpanFields(log, key, name) ==
    IF Str(log, name) # "" THEN SubSeq(key, 1, Len(key) - 1) ELSE key

\* a Vacant arm that records the child in its parent and never stores it
NewSpanNotStored(log, cur_span_id, key) ==
    LET new_span_id == log.next_span_id
        parent == log.spans[cur_span_id]
        parent1 == [parent EXCEPT
                         !.json_subspan_keys = (key :> new_span_id) @@ @,
                         !.events = Append(@, EventSpan(new_span_id))]
    IN  [log EXCEPT !.next_span_id = new_span_id + 1,
                    !.spans = (cur_span_id :> parent1) @@ @]

\* the Vacant arm: make a new span under cur_span_id
NewSpan(log, cur_span_id, key) ==
    LET new_span_id == log.next_span_id
        name == SpanName(log, key)
        new_span == SpanEntry(name, SpanFields(log, key, name))
        parent == log.spans[cur_span_id]
        parent1 == [parent EXCEPT
                         !.json_subspan_keys = (key :> new_span_id) @@ @,
                         !.events = Append(@, EventSpan(new_span_id))]
    IN  [log EXCEPT !.next_span_id = new_span_id + 1,
                    !.spans = (new_span_id :> new_span) @@ (cur_span_id :> parent1) @@ @]

RECURSIVE ResolveSpans(_, _, _, _)
ResolveSpans(log, cur_span_id, spans, n) ==
    IF n > Len(spans)
    THEN [ok |-> TRUE, log |-> log, cur_span_id |-> cur_span_id]
    ELSE IF cur_span_id \notin DOMAIN log.spans
    THEN [ok |-> FALSE, log |-> log, cur_span_id |-> cur_span_id]
    ELSE LET i_json_span == InternPseudo(log.interner, spans[n])
             log1 == [log EXCEPT !.interner = i_json_span.interner]
             key == i_json_span.vals
             keys == log1.spans[cur_span_id].json_subspan_keys
         IN  IF key \in DOMAIN keys
             THEN ResolveSpans(log1, keys[key], spans, n + 1)
             ELSE ResolveSpans(NewSpan(log1, cur_span_id, key), log1.next_span_id,
                               spans, n + 1)

\* an ingest that drops the cached text
AppendMessageDropsCache(log, cur_span_id, json_message) ==
    LET new_message_id == log.next_message_id
        target == InternStr(log.interner, json_message.target)
        fields == InternPseudo(target.interner, json_message.fields)
        new_message == [timestamp |-> ParseTimestamp(json_message.timestamp),
                        level |-> ParseLevel(json_message.level),
                        target |-> target.h,
                        fields |-> fields.vals]
    IN  [log EXCEPT !.next_message_id = new_message_id + 1,
                    !.interner = fields.interner,
                    !.messages = (new_message_id :> new_message) @@ @,
                    !.cur_string = NoString,
                    !.spans[cur_span_id].events = Append(@, EventMessage(new_message_id))]

\* a message entered at the front of the events of its span
AppendMessageAtFront(log, cur_span_id, json_message) ==
    LET new_message_id == log.next_message_id
        target == InternStr(log.interner, json_message.target)
        fields == InternPseudo(target.interner, json_message.fields)
        new_message == [timestamp |-> ParseTimestamp(json_message.timestamp),
                        level |-> ParseLevel(json_message.level),
                        target |-> target.h,
                        fields |-> fields.vals]
    IN  [log EXCEPT !.next_message_id = new_message_id + 1,
                    !.interner = fields.interner,
                    !.messages = (new_message_id :> new_message) @@ @,
                    !.spans[cur_span_id].events = <<EventMessage(new_message_id)>> \o @]

AppendMessage(log, cur_span_id, json_message) ==
    LET new_message_id == log.next_message_id
        target == InternStr(log.interner, json_message.target)
        fields == InternPseudo(target.interner, json_message.fields)
        new_message == [timestamp |-> ParseTimestamp(json_message.timestamp),
                        level |-> ParseLevel(json_message.level),
                        target |-> target.h,
                        fields |-> fields.vals]
    IN  [log EXCEPT !.next_message_id = new_message_id + 1,
                    !.interner = fields.interner,
                    !.messages = (new_message_id :> new_message) @@ @,
                    !.spans[cur_span_id].events = Append(@, EventMessage(new_message_id))]

\* a parse failure that is unwrapped
OnParseErrorPanics(log) == [ok |-> FALSE, log |-> log]

\* the Err arm: the error is printed and the call returns
OnParseError(log) == [ok |-> TRUE, log |-> log]

AddJsonMessage(log, input) ==
    LET parsed == ParseJsonMessage(input)
    IN  IF ~parsed.some
        THEN OnParseError(log)
        ELSE LET r == ResolveSpans(log, log.root_span, parsed.v.spans, 1)
             IN  IF ~r.ok
                 THEN [ok |-> FALSE, log |-> r.log]
                 ELSE IF r.cur_span_id \notin DOMAIN r.log.spans
                 THEN [ok |-> FALSE, log |-> r.log]
                 ELSE [ok |-> TRUE, log |-> AppendMessage(r.log, r.cur_span_id, parsed.v)]

(***************************************************************************)
(* The initial state: main() before the shell or the processor has run.    *)
(***************************************************************************)
NoTask == [some |-> FALSE, kind |-> "", path |-> "", seq |-> 0]
\* fed: add_json_message calls of the current run; fed_since_post: those made while
\* a task was in the mailbox; posted_at: fed when the first task was posted during
\* the current run (-1: none); seen: the task the check-in found; eof: read_line
\* has returned Ok(0) in the current run; opened_for: the post number of the task
\* File::open was last called for; takes: tasks taken so far
NoHist == [fed |-> 0, fed_since_post |-> 0, posted_at |-> -1, seen |-> NoTask,
           eof |-> FALSE, opened_for |-> 0, takes |-> 0]

\* no thread holds a guard, and the shell is in no handler
NoLocks == [worker |-> {}, shell |-> {}, handler |-> "none"]

InitCommon ==
    /\ logs = LogsInnerNew
    /\ panicked = "none"
    /\ task = NoTask
    /\ status = "NotStarted"
    /\ pc = "lock"
    /\ path = ""
    /\ file_pos = 0
    /\ lines_since_checkin = 0
    /\ cur_line = <<>>
    /\ cur_status = "NotStarted"
    /\ cur_span = None
    /\ text = ""
    /\ posts = 0
    /\ taken = NoTask
    /\ hist = NoHist
    /\ last_op = "new"
    /\ held = NoLocks
    /\ notified = FALSE

(***************************************************************************)
(* The store on its own: the methods of Logs called in any order.          *)
(***************************************************************************)
DoAddJsonMessage(input) ==
    /\ panicked = "none"
    /\ logs.next_message_id < MaxMessages
    /\ LET r == AddJsonMessage(logs, input)
       IN  /\ logs' = r.log
           /\ panicked' = IF r.ok THEN "none" ELSE "add_json_message"
    /\ last_op' = "add_json_message"
    /\ UNCHANGED <<procVars, syncVars, cur_span, text>>

DoClear ==
    /\ panicked = "none"
    /\ logs' = Clear(logs)
    /\ last_op' = "clear"
    /\ UNCHANGED <<procVars, syncVars, panicked, cur_span, text>>

DoStringQuery(query) ==
    /\ panicked = "none"
    /\ LET r == StringQuery(logs, query)
       IN  /\ logs' = r.log
           /\ text' = r.text
           /\ panicked' = IF r.ok THEN "none" ELSE "string_query"
    /\ last_op' = "string_query"
    /\ UNCHANGED <<procVars, syncVars, cur_span>>

Queries(log) == {QueryAll} \cup {QuerySpan(id) : id \in DOMAIN log.spans}

Init ==
    /\ InitCommon
    /\ available_paths = <<>>

Next ==
    \/ \E input \in StoreLines : DoAddJsonMessage(input)
    \/ DoClear
    \/ \E query \in Queries(logs) : DoStringQuery(query)

Spec == Init /\ [][Next]_vars

\* the store fed with lines that differ in their span context
DoAddNamed(input) ==
    /\ logs.next_message_id < MaxNamed
    /\ DoAddJsonMessage(input)

NextNaming ==
    \/ \E input \in NamingLines : DoAddNamed(input)
    \/ DoClear

SpecNaming == Init /\ [][NextNaming]_vars

\* the store fed with lines that differ in their timestamp and level, and rendered
DoAddRendered(input) ==
    /\ logs.next_message_id < MaxRendered
    /\ DoAddJsonMessage(input)

NextRender ==
    \/ \E input \in RenderLines : DoAddRendered(input)
    \/ DoClear
    \/ DoStringQuery(QueryAll)

SpecRender == Init /\ [][NextRender]_vars

(***************************************************************************)
(* The files the shell can pick.  File::open fails for missing.json.       *)
(***************************************************************************)
LINE_COUNT_CHECKIN == 1000
BigFileLines == 2000

\* a 2000-line file: two valid lines around every 250th line, lines that
\* do not parse elsewhere
BigFileLine(i) == IF i % 250 \in {0, 1} THEN LineM1 ELSE GarbageLine

FileOpens(p) == p # "missing.json"

FileLen(p) ==
    CASE p = "a.json" -> 4
      [] p = "b.json" -> 2
      [] p = "c.json" -> 2
      [] p = "e.json" -> 1
      [] p = "big.json" -> BigFileLines
      [] OTHER -> 0

FileLine(p, i) ==
    CASE p = "a.json" -> <<GarbageLine, LineM2, BlankLine, LineM1>>[i]
      [] p = "b.json" -> <<LineM1, BadReadLine>>[i]
      [] p = "c.json" -> <<LineM2, BadReadLine>>[i]
      [] p = "e.json" -> <<LineM2>>[i]
      [] OTHER -> BigFileLine(i)

(***************************************************************************)
(* run_processor.                                                          *)
(*   pc = "lock"          about to lock the mailbox at the top of 'main    *)
(*   pc = "wait"          inside condvar.wait                              *)
(*   pc = "clear"         took OpenLogs(path), about to call logs.clear()  *)
(*   pc = "set_reading"   about to write Reading                           *)
(*   pc = "open"          about to open the file                           *)
(*   pc = "read"          at the head of the while let loop                *)
(*   pc = "ingest"        about to call logs.add_json_message(trim_line)   *)
(*   pc = "set_cancelled" saw a task in the mailbox, about to write        *)
(*                        Cancelled                                        *)
(*   pc = "dead"          the thread panicked                              *)
(***************************************************************************)
OpenLogs(p, seq) == [some |-> TRUE, kind |-> "OpenLogs", path |-> p, seq |-> seq]
Cancel(seq) == [some |-> TRUE, kind |-> "Cancel", path |-> "", seq |-> seq]

\* task.take(): what is left in the mailbox
AfterTake(mailbox) == NoTask

\* a check-in that takes the task out of the mailbox
AfterPeekTakes(mailbox) == NoTask

\* task_receiver.0.lock().unwrap().is_some(): what is left in the mailbox
AfterPeek(mailbox) == mailbox

\* a Cancel arm that reports the cancellation
CancelArmWritesCancelled(st) == "Cancelled"

\* the status after the Cancel arm of the match
CancelArmStatus(st) == st

\* an OpenLogs arm that reports the file as read before reading it
OpenLogsArmWritesDone(st) == "Done"

\* an OpenLogs arm that does not write Reading
OpenLogsArmKeepsStatus(st) == st

\* the status written on entry to the OpenLogs arm
OpenLogsArmStatus(st) == "Reading"

\* an open failure reported as Done
OpenFailedStatusDone == "Done"

\* the status written when File::open fails
OpenFailedStatus == "IoFailed"

\* a check-in that starts one interval late
CheckinLate(lines) == lines > LINE_COUNT_CHECKIN + LINE_COUNT_CHECKIN

\* lines_since_checkin > LINE_COUNT_CHECKIN
CheckinDue(lines) == lines > LINE_COUNT_CHECKIN

\* cur_line.trim(): the lines of the buffer without the blank ones around them
RECURSIVE TrimStart(_)
TrimStart(buf) ==
    IF Len(buf) > 0 /\ Head(buf).kind = "blank" THEN TrimStart(Tail(buf)) ELSE buf
RECURSIVE TrimEnd(_)
TrimEnd(buf) ==
    IF Len(buf) > 0 /\ buf[Len(buf)].kind = "blank"
    THEN TrimEnd(SubSeq(buf, 1, Len(buf) - 1)) ELSE buf
\* a trim of the end of the buffer alone
TrimEndOnly(buf) == TrimEnd(buf)

Trim(buf) == TrimEnd(TrimStart(buf))

\* the text of trim_line as one input: several lines of text are no JSON object
TrimLine(buf) == IF Len(Trim(buf)) = 1 THEN Trim(buf)[1] ELSE GarbageLine

Take ==
    /\ taken' = task
    /\ task' = AfterTake(task)
    /\ IF task.kind = "Cancel"
       THEN /\ pc' = "lock"
            /\ status' = CancelArmStatus(status)
            /\ UNCHANGED path
       ELSE /\ pc' = "clear"
            /\ path' = task.path
            /\ UNCHANGED status
    /\ hist' = [hist EXCEPT !.fed = 0, !.fed_since_post = 0, !.posted_at = -1,
                            !.seen = NoTask, !.eof = FALSE, !.takes = @ + 1]
    /\ UNCHANGED <<logs, panicked, file_pos, lines_since_checkin, cur_line, cur_status,
                   available_paths, cur_span, text, posts, last_op>>

\* lines 121-125 with a task in the mailbox, or 121-123 without
LockTaskBody ==
    /\ pc = "lock"
    /\ panicked = "none"
    /\ IF task.some
       THEN Take
       ELSE /\ pc' = "wait"
            /\ UNCHANGED <<logs, panicked, task, status, path, file_pos,
                           lines_since_checkin, cur_line, cur_status, available_paths,
                           cur_span, text, posts, taken, hist, last_op>>

LockTask == LockTaskBody /\ UNCHANGED syncVars

\* condvar.wait returns: after a notify_one, or spuriously; then task.take().unwrap()
WakeupBody ==
    /\ pc = "wait"
    /\ panicked = "none"
    /\ IF task.some
       THEN Take
       ELSE /\ pc' = "dead"
            /\ panicked' = "take"
            /\ UNCHANGED <<logs, task, status, path, file_pos, lines_since_checkin,
                           cur_line, cur_status, available_paths, cur_span, text, posts,
                           taken, hist, last_op>>

Wakeup == WakeupBody /\ UNCHANGED syncVars

\* line 133
WorkerClearBody ==
    /\ pc = "clear"
    /\ panicked = "none"
    /\ logs' = Clear(logs)
    /\ last_op' = "clear"
    /\ pc' = "set_reading"
    /\ UNCHANGED <<panicked, task, status, path, file_pos, lines_since_checkin, cur_line,
                   cur_status, available_paths, cur_span, text, posts, taken, hist>>

WorkerClear == WorkerClearBody /\ UNCHANGED syncVars

\* line 134
SetReadingBody ==
    /\ pc = "set_reading"
    /\ status' = OpenLogsArmStatus(status)
    /\ pc' = "open"
    /\ UNCHANGED <<logs, panicked, task, path, file_pos, lines_since_checkin, cur_line,
                   cur_status, available_paths, cur_span, text, posts, taken, hist, last_op>>

SetReading == SetReadingBody /\ UNCHANGED syncVars

\* lines 135-146
OpenFileBody ==
    /\ pc = "open"
    /\ hist' = [hist EXCEPT !.opened_for = taken.seq]
    /\ IF FileOpens(path)
       THEN /\ pc' = "read"
            /\ file_pos' = 0
            /\ lines_since_checkin' = 0
            /\ cur_line' = <<>>
            /\ UNCHANGED status
       ELSE /\ status' = OpenFailedStatus
            /\ pc' = "lock"
            /\ UNCHANGED <<file_pos, lines_since_checkin, cur_line>>
    /\ UNCHANGED <<logs, panicked, task, path, cur_status, available_paths, cur_span, text,
                   posts, taken, last_op>>

OpenFile == OpenFileBody /\ UNCHANGED syncVars

\* With no task in the mailbox the loop goes on reading at end of file for ever:
\* the model stops it MaxSpin reads after the later of the end of the file and
\* the first check-in.
SpinCap(p) ==
    (IF FileLen(p) > LINE_COUNT_CHECKIN + 1 THEN FileLen(p) ELSE LINE_COUNT_CHECKIN + 1)
    + MaxSpin

\* lines 149-161, and 165 when read_line returns Err.  At end of file read_line
\* returns Ok(0) and leaves cur_line as it is.
ReadLineBody ==
    /\ pc = "read"
    /\ \/ lines_since_checkin < SpinCap(path)
       \/ task.some
    /\ LET eof == file_pos >= FileLen(path)
           err == ~eof /\ FileLine(path, file_pos + 1).kind = "bad_read"
           buf == IF eof THEN cur_line ELSE Append(cur_line, FileLine(path, file_pos + 1))
       IN  IF err
           THEN /\ status' = "Done"
                /\ pc' = "lock"
                /\ UNCHANGED <<task, file_pos, lines_since_checkin, cur_line, hist>>
           ELSE /\ file_pos' = IF eof THEN file_pos ELSE file_pos + 1
                /\ lines_since_checkin' = lines_since_checkin + 1
                /\ cur_line' = buf
                /\ hist' = [hist EXCEPT
                                !.eof = @ \/ eof,
                                !.seen = IF CheckinDue(lines_since_checkin + 1)
                                         THEN task ELSE @]
                /\ IF CheckinDue(lines_since_checkin + 1) /\ task.some
                   THEN /\ pc' = "set_cancelled"
                        /\ task' = AfterPeek(task)
                   ELSE /\ pc' = IF Len(Trim(buf)) = 0 THEN "read" ELSE "ingest"
                        /\ task' = IF CheckinDue(lines_since_checkin + 1)
                                   THEN AfterPeek(task) ELSE task
                /\ UNCHANGED status
    /\ UNCHANGED <<logs, panicked, path, cur_status, available_paths, cur_span, text, posts,
                   taken, last_op>>

ReadLine == ReadLineBody /\ UNCHANGED syncVars

\* lines 155-156
SetCancelledBody ==
    /\ pc = "set_cancelled"
    /\ status' = "Cancelled"
    /\ pc' = "lock"
    /\ UNCHANGED <<logs, panicked, task, path, file_pos, lines_since_checkin, cur_line,
                   cur_status, available_paths, cur_span, text, posts, taken, hist, last_op>>

SetCancelled == SetCancelledBody /\ UNCHANGED syncVars

\* lines 162-163
IngestBody ==
    /\ pc = "ingest"
    /\ panicked = "none"
    /\ LET r == AddJsonMessage(logs, TrimLine(cur_line))
       IN  /\ logs' = r.log
           /\ panicked' = IF r.ok THEN "none" ELSE "add_json_message"
           /\ pc' = IF r.ok THEN "read" ELSE "dead"
    /\ cur_line' = <<>>
    /\ last_op' = "add_json_message"
    /\ hist' = [hist EXCEPT !.fed = @ + 1,
                            !.fed_since_post = IF task.some THEN @ + 1 ELSE @]
    /\ UNCHANGED <<task, status, path, file_pos, lines_since_checkin, cur_status,
                   available_paths, cur_span, text, posts, taken>>

Ingest == IngestBody /\ UNCHANGED syncVars

Worker ==
    \/ LockTask
    \/ Wakeup
    \/ WorkerClear
    \/ SetReading
    \/ OpenFile
    \/ ReadLine
    \/ SetCancelled
    \/ Ingest

(***************************************************************************)
(* The shell: App::poll_processor_state, App::set_path,                    *)
(* App::cancel_processing.  A panic of the processor inside task.take()    *)
(* poisons the mailbox mutex, and the shell's lock().unwrap() then panics. *)
(***************************************************************************)
\* a post that keeps a task not yet taken (a queue of one)
PostTaskKeepsPending(mailbox, t) == IF mailbox.some THEN mailbox ELSE t

\* *new_task = Some(t): what is in the mailbox afterwards
PostTask(mailbox, t) == t

RunPcs == {"clear", "set_reading", "open", "read", "ingest", "set_cancelled"}

HistAfterPost ==
    IF pc \in RunPcs /\ hist.posted_at = -1
    THEN [hist EXCEPT !.posted_at = hist.fed] ELSE hist

PollProcessorStateBody ==
    /\ panicked # "string_query"
    /\ cur_status' = status
    /\ UNCHANGED <<logs, panicked, task, status, pc, path, file_pos, lines_since_checkin,
                   cur_line, available_paths, cur_span, text, posts, taken, hist, last_op>>

PollProcessorState == PollProcessorStateBody /\ UNCHANGED syncVars

SetPathBody(idx) ==
    /\ panicked \notin {"take", "string_query"}
    /\ posts < MaxPosts
    /\ task' = PostTask(task, OpenLogs(available_paths[idx], posts + 1))
    /\ posts' = posts + 1
    /\ hist' = HistAfterPost
    /\ UNCHANGED <<logs, panicked, status, pc, path, file_pos, lines_since_checkin,
                   cur_line, cur_status, available_paths, cur_span, text, taken, last_op>>

SetPath(idx) == SetPathBody(idx) /\ UNCHANGED syncVars

\* the cancel button is enabled while cur_status is Reading (ui_settings)
CancelProcessingBody ==
    /\ panicked \notin {"take", "string_query"}
    /\ posts < MaxPosts
    /\ cur_status = "Reading"
    /\ task' = PostTask(task, Cancel(posts + 1))
    /\ posts' = posts + 1
    /\ hist' = HistAfterPost
    /\ UNCHANGED <<logs, panicked, status, pc, path, file_pos, lines_since_checkin,
                   cur_line, cur_status, available_paths, cur_span, text, taken, last_op>>

CancelProcessing == CancelProcessingBody /\ UNCHANGED syncVars

(***************************************************************************)
(* The processor and the shell, with files of a few lines.                 *)
(***************************************************************************)
InitProc ==
    /\ InitCommon
    /\ available_paths = <<"a.json", "b.json", "missing.json">>

NextProc ==
    \/ Worker
    \/ PollProcessorState
    \/ \E idx \in 1..Len(available_paths) : SetPath(idx)
    \/ CancelProcessing

SpecProc == InitProc /\ [][NextProc]_vars

(***************************************************************************)
(* The processor and the shell, with the 2000-line file.  While the file   *)
(* is being read the shell posts only when the number of lines consumed is *)
(* one of PostPoints.                                                      *)
(***************************************************************************)
PostPoints == {0, 500, 1500}

PostWindow == pc \in {"read", "ingest", "set_cancelled"} => file_pos \in PostPoints

InitBig ==
    /\ InitCommon
    /\ available_paths = <<"big.json">>

NextBig ==
    \/ Worker
    \/ PollProcessorState
    \/ PostWindow /\ SetPath(1)
    \/ PostWindow /\ CancelProcessing

SpecBig == InitBig /\ [][NextBig]_vars

(***************************************************************************)
(* The processor and the tree view of the shell, with the file a.json.     *)
(* The processor is followed through its first run, up to MaxSpin reads at *)
(* the end of the file.                                                    *)
(***************************************************************************)
\* a view that asks for the whole log whatever span is picked
QueryOfAlwaysAll(picked) == QueryAll

\* ui_logs_tree_text: the query for the picked span
QueryOf(picked) == IF picked.some THEN QuerySpan(picked.v) ELSE QueryAll

\* ui_logs_tree_list: a click on the link of a span
UiLogsTreeListBody(id) ==
    /\ panicked \in {"none", "take"}
    /\ id \in DOMAIN logs.spans
    /\ cur_span' = Some(id)
    /\ UNCHANGED <<logs, panicked, procVars, text, last_op>>

UiLogsTreeList(id) == UiLogsTreeListBody(id) /\ UNCHANGED syncVars

\* ui_logs_tree_text: the text of the picked span, or of the whole log
UiLogsTreeTextBody ==
    /\ panicked \in {"none", "take"}
    /\ LET r == StringQuery(logs, QueryOf(cur_span))
       IN  /\ logs' = r.log
           /\ text' = r.text
           /\ panicked' = IF r.ok THEN panicked ELSE "string_query"
    /\ last_op' = "string_query"
    /\ UNCHANGED <<procVars, cur_span>>

UiLogsTreeText == UiLogsTreeTextBody /\ UNCHANGED syncVars

UiReadLine ==
    /\ lines_since_checkin < FileLen(path) + MaxSpin
    /\ ReadLine

InitUi ==
    /\ InitCommon
    /\ available_paths = <<"a.json">>

NextUi ==
    \/ LockTask
    \/ Wakeup
    \/ WorkerClear
    \/ SetReading
    \/ OpenFile
    \/ UiReadLine
    \/ Ingest
    \/ PollProcessorState
    \/ SetPath(1)
    \/ \E id \in DOMAIN logs.spans : UiLogsTreeList(id)
    \/ UiLogsTreeText

SpecUi == InitUi /\ [][NextUi]_vars

(***************************************************************************)
(* The processor and the tree view of the shell, with the file c.json,     *)
(* whose second line cannot be decoded: a run ends with Done and the shell *)
(* can have the file opened again.                                         *)
(***************************************************************************)
InitSel ==
    /\ InitCommon
    /\ available_paths = <<"c.json">>

SpecSel == InitSel /\ [][NextUi]_vars

(***************************************************************************)
(* The processor and the shell with the steps of their locking: taking a   *)
(* mutex is a step of its own, which waits while the other thread holds    *)
(* the guard, and the statements under the guard are the step after it,    *)
(* at the end of which the guard goes out of scope.  held has the guards   *)
(* of each thread between two steps, and the lock of the handler the shell *)
(* is in.  condvar.wait gives the guard of the mailbox back and takes the  *)
(* mutex again when it returns, after a notify_one or without one.  The    *)
(* file is e.json, of one line; of the tree view the shell runs            *)
(* ui_logs_tree_text.                                                      *)
(***************************************************************************)
Locks == {"task", "status", "logs"}

Free(l) == l \notin held.worker \cup held.shell

\* a guard that outlives its statement
GuardKept(guards, l) == guards

\* the guard of l goes out of scope: the end of the block of main.rs:120-126,
\* of the statement or condition that locked, or of the method of Logs
GuardDropped(guards, l) == guards \ {l}

\* buf_read.read_line returns Err on the next line
ReadFails ==
    file_pos < FileLen(path) /\ FileLine(path, file_pos + 1).kind = "bad_read"

\* the mutex the processor locks in its next step, "none" when that step locks nothing
WorkerNeeds ==
    CASE pc \in {"lock", "wait"} -> "task"
      [] pc \in {"clear", "ingest"} -> "logs"
      [] pc \in {"set_reading", "set_cancelled"} -> "status"
      [] pc = "open" -> IF FileOpens(path) THEN "none" ELSE "status"
      [] pc = "read" -> IF ReadFails THEN "status"
                        ELSE IF CheckinDue(lines_since_checkin + 1) THEN "task"
                        ELSE "none"
      [] OTHER -> "none"

\* lock().unwrap() of the processor returns: the mutex is not poisoned, and the
\* model follows the step after it
WorkerMayStep ==
    /\ pc \in {"lock", "wait", "clear", "ingest"} => panicked = "none"
    /\ pc = "read" => (lines_since_checkin < SpinCap(path) \/ task.some)

\* lock() of the processor
WorkerLock ==
    /\ pc # "wait"
    /\ WorkerNeeds \in Locks \ held.worker
    /\ Free(WorkerNeeds)
    /\ WorkerMayStep
    /\ held' = [held EXCEPT !.worker = @ \cup {WorkerNeeds}]
    /\ UNCHANGED <<logs, panicked, procVars, cur_span, text, last_op, notified>>

\* condvar.wait returns after the notify_one of a post
WakeNotified ==
    /\ pc = "wait"
    /\ notified
    /\ "task" \notin held.worker
    /\ Free("task")
    /\ WorkerMayStep
    /\ held' = [held EXCEPT !.worker = @ \cup {"task"}]
    /\ notified' = FALSE
    /\ UNCHANGED <<logs, panicked, procVars, cur_span, text, last_op>>

\* condvar.wait returns with no notify_one
WakeSpurious ==
    /\ pc = "wait"
    /\ ~notified
    /\ "task" \notin held.worker
    /\ Free("task")
    /\ WorkerMayStep
    /\ held' = [held EXCEPT !.worker = @ \cup {"task"}]
    /\ UNCHANGED <<logs, panicked, procVars, cur_span, text, last_op, notified>>

\* the processor runs the statements at pc, under the guard they need, and
\* the guard is dropped
WorkerSection(statements) ==
    /\ WorkerNeeds = "none" \/ WorkerNeeds \in held.worker
    /\ statements
    /\ held' = [held EXCEPT !.worker = GuardDropped(@, WorkerNeeds)]
    /\ UNCHANGED notified

\* lock().unwrap() of the shell returns: the mutex is not poisoned, and the
\* model follows the handler
ShellMayStep(l) ==
    CASE l = "task" -> /\ panicked \notin {"take", "string_query"}
                       /\ posts < MaxLockPosts
                       /\ posts < MaxPosts
      [] l = "status" -> panicked # "string_query"
      [] l = "logs" -> panicked \in {"none", "take"}

\* While the processor reads on at the end of the file, between the lines of
\* the file and the first check-in, each of its steps is a read_line that
\* locks nothing: the shell starts no handler in that stretch.
ShellWindow ==
    pc \in {"read", "ingest"} =>
        \/ lines_since_checkin <= FileLen(path) + 1
        \/ lines_since_checkin >= LINE_COUNT_CHECKIN - 1

\* lock() in a handler of the shell
ShellLock(l) ==
    /\ ShellWindow
    /\ held.handler = "none"
    /\ l \notin held.shell
    /\ Free(l)
    /\ ShellMayStep(l)
    /\ held' = [held EXCEPT !.shell = @ \cup {l}, !.handler = l]
    /\ UNCHANGED <<logs, panicked, procVars, cur_span, text, last_op, notified>>

\* the shell runs the statements of a handler under its guard, and the guard
\* is dropped at the end of the handler; notify_one reaches the processor
\* when it is in condvar.wait
ShellSection(l, statements) ==
    /\ held.handler = l
    /\ statements
    /\ held' = [held EXCEPT !.shell = GuardDropped(@, l), !.handler = "none"]
    /\ notified' = (notified \/ (l = "task" /\ pc = "wait"))

InitLocks ==
    /\ InitCommon
    /\ available_paths = <<"e.json">>

\* the steps of run_processor between two lock() calls
WorkerRuns ==
    \/ WorkerSection(LockTaskBody)
    \/ WorkerSection(WakeupBody)
    \/ WorkerSection(WorkerClearBody)
    \/ WorkerSection(SetReadingBody)
    \/ WorkerSection(OpenFileBody)
    \/ WorkerSection(ReadLineBody)
    \/ WorkerSection(SetCancelledBody)
    \/ WorkerSection(IngestBody)

\* the handlers of the shell, from after their lock() to their end
ShellRuns ==
    \/ ShellSection("status", PollProcessorStateBody)
    \/ ShellSection("task", SetPathBody(1))
    \/ ShellSection("task", CancelProcessingBody)
    \/ ShellSection("logs", UiLogsTreeTextBody)

NextLocks ==
    \/ WorkerLock
    \/ WakeNotified
    \/ WakeSpurious
    \/ WorkerRuns
    \/ \E l \in Locks : ShellLock(l)
    \/ ShellRuns

SpecLocks == InitLocks /\ [][NextLocks]_vars

(***************************************************************************)
(* The processor: claims C1 to C7.                                         *)
(***************************************************************************)
Idle == pc \in {"lock", "wait"}
Terminal == {"Done", "IoFailed", "Cancelled"}
StoreIsEmpty ==
    /\ DOMAIN logs.spans = {ROOT_SPAN}
    /\ logs.spans[ROOT_SPAN].events = <<>>
    /\ DOMAIN logs.messages = {}

\* C1: when OpenLogs runs on a file that opens and no task is posted during the
\* run, then once the file has been read to its end the status is Done and the
\* processor is back waiting for a task.
C1_DoneAtEndOfFile ==
    (hist.eof /\ hist.posted_at = -1 /\ ~task.some) => (status = "Done" /\ Idle)

\* C2: the status moves only from a non-Reading value to Reading and from
\* Reading to Done, IoFailed or Cancelled; NotStarted is never written; and an
\* OpenLogs run has written Reading before it can write a terminal value.
C2_StatusStateMachine ==
    /\ [](pc \in {"open", "read", "ingest", "set_cancelled"} => status = "Reading")
    /\ [][status' # status =>
            \/ status' = "Reading" /\ status \in Terminal \cup {"NotStarted"}
            \/ status' \in Terminal /\ status = "Reading"]_vars

\* a second OpenLogs run, started after the first one ended, has written Reading
C2_Witness ==
    /\ hist.takes = 2
    /\ taken.kind = "OpenLogs"
    /\ pc = "read"
    /\ status = "Reading"

\* C3: the mailbox holds one task and the last post wins: the task the processor
\* takes is the one posted last, a task overwritten before it was taken is never
\* taken, and the take empties the mailbox.
C3_LastWriterWins ==
    [][taken' # taken =>
          /\ task.some
          /\ taken' = task
          /\ task.seq = posts
          /\ taken'.seq > taken.seq
          /\ ~task'.some]_vars

\* two posts, one take: the processor opened the file of the second post only
C3_Witness ==
    /\ hist.takes = 1
    /\ taken = OpenLogs("b.json", 2)
    /\ hist.opened_for = 2
    /\ path = "b.json"

\* the valid lines among the first n lines of the 2000-line file
BigValidUpTo(n) == Cardinality({i \in 1..n : BigFileLine(i).kind = "json"})

\* C4: after a task is posted during a run the processor feeds at most 1000
\* further lines to add_json_message, and the run ends with status Cancelled;
\* for a task posted after line 500 of the 2000-line file, the run ends
\* Cancelled with at least 500 and fewer than 1500 lines fed, the store holding
\* the messages of the lines fed.
C4_CancelWithinCheckin ==
    /\ hist.fed_since_post <= LINE_COUNT_CHECKIN
    /\ (pc = "lock" /\ hist.posted_at >= 0) => status = "Cancelled"
    /\ (pc = "lock" /\ hist.posted_at = 500) =>
           /\ hist.fed >= 500
           /\ hist.fed < 1500
           /\ Cardinality(DOMAIN logs.messages) = BigValidUpTo(hist.fed)

\* a run of the 2000-line file cancelled by a task posted after line 500
C4_Witness ==
    /\ pc = "lock"
    /\ path = "big.json"
    /\ hist.posted_at = 500
    /\ status = "Cancelled"
    /\ hist.fed = LINE_COUNT_CHECKIN
    /\ task.some

\* C5: the check-in leaves the task in the mailbox: from the check-in that
\* cancels the run until the next take, the mailbox holds the task the check-in
\* saw or one posted after it, and the next take takes it.
C5_PeekLeavesTask ==
    /\ []((hist.seen.some /\ pc \in {"set_cancelled", "lock", "wait"}) =>
              /\ task.some
              /\ task.seq >= hist.seen.seq
              /\ (posts = hist.seen.seq => task = hist.seen))
    /\ [][(hist.seen.some /\ taken' # taken) =>
              /\ status = "Cancelled"
              /\ taken'.seq >= hist.seen.seq
              /\ (posts = hist.seen.seq => taken' = hist.seen)]_vars

\* the run was abandoned as Cancelled and the Cancel that did it is in the mailbox
C5_Witness ==
    /\ pc = "lock"
    /\ status = "Cancelled"
    /\ hist.seen.some
    /\ hist.seen.kind = "Cancel"
    /\ task = hist.seen

\* C6: taking a Cancel task changes neither the status nor the store, empties
\* the mailbox and returns the processor to the top of its loop.
C6_CancelTaskIsNoOp ==
    [][(taken' # taken /\ taken'.kind = "Cancel") =>
          /\ status' = status
          /\ logs' = logs
          /\ panicked' = panicked
          /\ ~task'.some
          /\ pc' = "lock"]_vars

\* a Cancel was taken while the status was not Cancelled, and the processor waits again
C6_Witness ==
    /\ taken.kind = "Cancel"
    /\ pc = "wait"
    /\ ~task.some
    /\ status = "IoFailed"

\* C7: when File::open fails the status goes from Reading to IoFailed, the
\* store is the cleared one (the root span alone, no events, no messages, no
\* line fed), the processor returns to the top of its loop, and File::open is
\* called again only for a task taken after that.
C7_OpenFailure ==
    /\ []((status = "IoFailed" /\ Idle) => (StoreIsEmpty /\ hist.fed = 0))
    /\ [][(pc = "open" /\ pc' # "open" /\ ~FileOpens(path)) =>
              /\ status = "Reading"
              /\ status' = "IoFailed"
              /\ pc' = "lock"
              /\ logs' = logs]_vars
    /\ [][(pc' = "open" /\ pc # "open") => taken.seq > hist.opened_for]_vars

\* the open of missing.json failed after an earlier run had filled the store
C7_Witness ==
    /\ status = "IoFailed"
    /\ pc = "wait"
    /\ taken = OpenLogs("missing.json", 2)
    /\ Len(logs.interner) > 4
    /\ StoreIsEmpty

(***************************************************************************)
(* The store: claims C8, C9, C10.                                          *)
(***************************************************************************)
SpanEvents(span) == {span.events[n].id : n \in {m \in 1..Len(span.events) :
                                                   span.events[m].kind = "Span"}}
IndexValues(span) == {span.json_subspan_keys[k] : k \in DOMAIN span.json_subspan_keys}

\* C8: right after clear(), whatever was ingested before, the spans map holds
\* exactly the root span (id 0, named "<all spans>") with no events, the
\* messages map is empty, and string_query(All) returns the root header line.
C8_ClearLeavesOnlyRoot ==
    last_op = "clear" =>
        /\ DOMAIN logs.spans = {ROOT_SPAN}
        /\ logs.root_span = ROOT_SPAN
        /\ Str(logs, logs.spans[ROOT_SPAN].name) = ROOT_SPAN_NAME
        /\ logs.spans[ROOT_SPAN].events = <<>>
        /\ DOMAIN logs.messages = {}
        /\ StringQuery(logs, QueryAll).ok
        /\ StringQuery(logs, QueryAll).text = "[<all spans>]\n"

\* a clear after ingests that made spans and messages, with All rendered before it
C8_Witness ==
    /\ last_op = "clear"
    /\ logs.last_query = QueryAll
    /\ Len(text) > Len("[<all spans>]\n")
    /\ DOMAIN logs.spans[ROOT_SPAN].json_subspan_keys # {}

\* C9: in every state of the store, for every span S the values of S's dedup
\* index are exactly the ids of the Span entries of S.events, one index entry
\* per child, each key mapped to the span that was made from that key.
C9_DedupIndexMatchesEvents ==
    panicked = "none" =>
        \A id \in DOMAIN logs.spans :
            LET span == logs.spans[id]
                keys == span.json_subspan_keys
            IN  /\ IndexValues(span) = SpanEvents(span)
                /\ \A k1, k2 \in DOMAIN keys : keys[k1] = keys[k2] => k1 = k2
                /\ \A k \in DOMAIN keys :
                       /\ keys[k] \in DOMAIN logs.spans
                       /\ logs.spans[keys[k]].name = SpanName(logs, k)
                       /\ logs.spans[keys[k]].fields
                              = SpanFields(logs, k, SpanName(logs, k))

\* C10: add_json_message never looks up a SpanId that is absent from the spans
\* map: its unwrap of spans.get_mut never panics.
C10_NoMissingSpanLookup == panicked # "add_json_message"

(***************************************************************************)
(* The store: claims C11, C12.                                             *)
(***************************************************************************)
EventIds(span, kind) == {span.events[n].id : n \in {m \in 1..Len(span.events) :
                                                        span.events[m].kind = kind}}

\* C11: in every reachable state of the store, every Span(id) entry of any
\* span's events has its id in the spans map and every Message(id) entry has
\* its id in the messages map.
C11_EventsReferToEntries ==
    \A id \in DOMAIN logs.spans :
        /\ EventIds(logs.spans[id], "Span") \subseteq DOMAIN logs.spans
        /\ EventIds(logs.spans[id], "Message") \subseteq DOMAIN logs.messages

\* nested spans and messages ingested after a clear that followed other ingests
C11_Witness ==
    /\ panicked = "none"
    /\ logs.next_span_id = 3
    /\ logs.next_message_id = 2
    /\ EventIds(logs.spans[ROOT_SPAN], "Message") # {}
    /\ EventIds(logs.spans[2], "Message") # {}
    /\ Len(logs.interner) > 14

\* the contexts of the line's chain, as interned keys
ChainKeys(log, input) ==
    [n \in 1..Len(input.spans) |-> InternPseudo(log.interner, input.spans[n]).vals]

\* the children of span id in the tree that were made from the key
ChildrenOf(log, id, key) ==
    {child \in EventIds(log.spans[id], "Span") \cap DOMAIN log.spans :
        /\ log.spans[child].name = SpanName(log, key)
        /\ log.spans[child].fields = SpanFields(log, key, SpanName(log, key))}

\* the spans the chain leads to in the tree, from span id and context n on:
\* empty when the tree has no span for one of the contexts
RECURSIVE ChainEnds(_, _, _, _)
ChainEnds(log, id, keys, n) ==
    IF n > Len(keys)
    THEN {id}
    ELSE UNION {ChainEnds(log, child, keys, n + 1) : child \in ChildrenOf(log, id, keys[n])}

Innermost(log, input) == ChainEnds(log, log.root_span, ChainKeys(log, input), 1)

\* C12: ingesting a line whose whole span-context chain has already been
\* ingested (the same line once more) creates no span: the chain resolves to
\* the spans it has in the tree and exactly one new Message entry is appended
\* to the events of the innermost one, every other span staying as it was;
\* so every ingest of a line leaves the tree with one span per context of the
\* line, the new message being the last entry of the innermost one, and a
\* line ingested twice has its two messages there.
C12_SeenChainAddsOneMessage ==
    [][\A input \in StoreLines :
          (input.kind = "json" /\ DoAddJsonMessage(input)) =>
              /\ panicked' = "none"
              /\ DOMAIN logs'.messages = DOMAIN logs.messages \cup {logs.next_message_id}
              /\ Cardinality(Innermost(logs', input)) = 1
              /\ \A id \in Innermost(logs', input) :
                     /\ logs'.spans[id].events # <<>>
                     /\ logs'.spans[id].events[Len(logs'.spans[id].events)]
                            = EventMessage(logs.next_message_id)
              /\ Innermost(logs, input) # {} =>
                     /\ DOMAIN logs'.spans = DOMAIN logs.spans
                     /\ Innermost(logs', input) = Innermost(logs, input)
                     /\ \A id \in DOMAIN logs.spans :
                            logs'.spans[id]
                                = IF id \in Innermost(logs, input)
                                  THEN [logs.spans[id] EXCEPT
                                            !.events = Append(@, EventMessage(logs.next_message_id))]
                                  ELSE logs.spans[id]]_vars

(***************************************************************************)
(* Span contexts: claims C13, C14.                                         *)
(***************************************************************************)
\* the content behind interned pairs
RawVal(log, v) == IF v.t = "S" THEN VS(Str(log, v.h)) ELSE VI(v.i)
RawPairs(log, vals) == [n \in 1..Len(vals) |-> KV(Str(log, vals[n].k), RawVal(log, vals[n].v))]

ValText(v) == IF v.t = "S" THEN v.s ELSE ToString(v.i)
WithoutPair(context, idx) ==
    [n \in 1..(Len(context) - 1) |-> IF n < idx THEN context[n] ELSE context[n + 1]]

\* a call that makes spans makes them for the last contexts of the chain, in
\* order: the context of the j-th span made by the step from logs to logs'
Created == logs'.next_span_id - logs.next_span_id
CreatedContext(input, j) == input.spans[Len(input.spans) - Created + j]
CreatedSpan(j) == logs'.spans[logs.next_span_id + j - 1]

\* the naming rule as stated: the last pair under "name", wherever it stands
NamePairs(context) == {n \in 1..Len(context) : context[n].k = "name"}
LastNamePair(context) == CHOOSE n \in NamePairs(context) : \A m \in NamePairs(context) : m <= n
NameOfLastNamePair(context) ==
    IF NamePairs(context) = {} THEN "" ELSE ValText(context[LastNamePair(context)].v)
FieldsWithoutLastNamePair(context) ==
    IF NamePairs(context) = {} THEN context ELSE WithoutPair(context, LastNamePair(context))

LastPairNames(context) ==
    /\ Len(context) > 0
    /\ context[Len(context)].k = "name"
    /\ context[Len(context)].v.t = "S"
NameOfLastPair(context) ==
    IF LastPairNames(context) THEN context[Len(context)].v.s ELSE ""

KeyOf(interner, context) == InternPseudo(interner, VisitMap(context))

C15_ParseFailureChangesNothing ==
    /\ [][(pc = "ingest" /\ pc' # "ingest" /\ ~ParseJsonMessage(TrimLine(cur_line)).some) =>
              /\ logs' = logs
              /\ panicked' = "none"
              /\ pc' = "read"
              /\ status' = status
              /\ file_pos' = file_pos]_vars
    /\ []((hist.eof /\ panicked = "none") =>
              \A i \in 1..FileLen(path) :
                  ParseJsonMessage(FileLine(path, i)).some =>
                      \E id \in DOMAIN logs.messages :
                          RawPairs(logs, logs.messages[id].fields) = FileLine(path, i).fields)

\* the line after the malformed first line of a.json has been ingested
C15_Witness ==
    /\ path = "a.json"
    /\ file_pos = 2
    /\ pc = "read"
    /\ hist.fed = 2
    /\ DOMAIN logs.messages = {0}
    /\ RawPairs(logs, logs.messages[0].fields) = LineM2.fields

ValidLines(p) == {i \in 1..FileLen(p) : ParseJsonMessage(FileLine(p, i)).some}

\* C16: after the worker has streamed a whole file, the number of Message
\* entries in the store is the number of lines of the file that are not blank
\* after trimming and that parse: every such line adds exactly one message,
\* blank lines and malformed lines add none.
C16_MessageCountIsValidLines ==
    /\ []((hist.eof /\ panicked = "none") =>
              /\ Cardinality(DOMAIN logs.messages) = Cardinality(ValidLines(path))
              /\ logs.next_message_id = Cardinality(ValidLines(path)))
    /\ [][(pc = "ingest" /\ pc' = "read") =>
              Cardinality(DOMAIN logs'.messages)
                  = Cardinality(DOMAIN logs.messages)
                    + (IF ParseJsonMessage(TrimLine(cur_line)).some THEN 1 ELSE 0)]_vars
    /\ [][(pc = "read" /\ pc' \in {"read", "set_cancelled", "lock"}) => logs' = logs]_vars

\* a.json streamed to its end: four lines, three fed, two messages
C16_Witness ==
    /\ hist.eof
    /\ panicked = "none"
    /\ path = "a.json"
    /\ file_pos = 4
    /\ hist.fed = 3
    /\ Cardinality(DOMAIN logs.messages) = 2

(***************************************************************************)
(* The render cache: claim C17.                                            *)
(***************************************************************************)
QueriedSpan(log, query) == IF query.kind = "All" THEN log.root_span ELSE query.span

\* C17: string_query(q) with q the cached last query, and no clear or other
\* query since that text was cached, returns the cached text object itself
\* and computes nothing; string_query with any other query computes the text
\* from the store as it is and replaces the cached (query, text) pair, so the
\* cache holds the text of the query asked last and of no other.
C17_CacheHitOrRecompute ==
    /\ [](logs.cur_string.some => logs.last_query # NoQuery)
    /\ [][\A query \in Queries(logs) : DoStringQuery(query) =>
              IF query = logs.last_query /\ logs.cur_string.some
              THEN /\ ~StringQuery(logs, query).computed
                   /\ text' = logs.cur_string.text
                   /\ logs' = logs
              ELSE /\ StringQuery(logs, query).computed
                   /\ text' = PrintSpanRecursive(logs, 0, logs.spans[QueriedSpan(logs, query)])
                   /\ logs' = [logs EXCEPT !.last_query = query,
                                           !.cur_string = [some |-> TRUE, text |-> text']]]_vars

\* a query answered from the cache after the store has grown: the text
\* returned is the cached one and not the rendering of the store
C17_Witness ==
    /\ last_op = "string_query"
    /\ panicked = "none"
    /\ logs.last_query = QueryAll
    /\ logs.cur_string = [some |-> TRUE, text |-> text]
    /\ text # PrintSpanRecursive(logs, 0, logs.spans[ROOT_SPAN])

(***************************************************************************)
(* Texts rendered while a file is read: claim C18.                         *)
(***************************************************************************)
\* the store after clear() and the first k lines of file p
RECURSIVE PrefixStore(_, _)
PrefixStore(p, k) ==
    IF k = 0
    THEN LogsInnerNew
    ELSE IF FileLine(p, k).kind = "blank"
    THEN PrefixStore(p, k - 1)
    ELSE AddJsonMessage(PrefixStore(p, k - 1), FileLine(p, k)).log

Render(log, query) ==
    IF QueriedSpan(log, query) \in DOMAIN log.spans
    THEN PrintSpanRecursive(log, 0, log.spans[QueriedSpan(log, query)])
    ELSE ""

\* what the tree view shows: the span picked in the list, or the whole log
Shown == IF cur_span.some THEN QuerySpan(cur_span.v) ELSE QueryAll

\* the processor has cleared the store for the OpenLogs task it took last
AfterClearOfRun == hist.takes > 0 /\ taken.kind = "OpenLogs" /\ pc # "clear"

\* C18 as stated: every text string_query returns while the worker runs an
\* OpenLogs task or after it is the rendering of the just-cleared store or of
\* the store after the whole file has been ingested, never the rendering of
\* a store that holds a prefix of the file's lines.
C18_RenderEmptyOrWholeFile ==
    [][(UiLogsTreeText /\ AfterClearOfRun /\ panicked' = "none") =>
          text' \in {Render(PrefixStore(path, 0), Shown),
                     Render(PrefixStore(path, FileLen(path)), Shown)}]_vars

\* C18, amended: every text string_query returns after the worker's clear()
\* for an OpenLogs task is the rendering, for the query asked, of the store
\* as it stood after that clear and the ingestion of the first k lines of
\* the file, for some k from 0 to the number of lines read so far; while the
\* file is read this is the rendering of a prefix of the file's lines.
C18_RenderOfPrefix ==
    [][(UiLogsTreeText /\ AfterClearOfRun /\ panicked' = "none") =>
          \E k \in 0..file_pos :
              text' = Render(PrefixStore(path, k), Shown)]_vars

\* the whole log rendered while a.json is read: the text shows the message
\* of the second line and not that of the fourth
C18_Witness ==
    /\ last_op = "string_query"
    /\ AfterClearOfRun
    /\ path = "a.json"
    /\ ~cur_span.some
    /\ text = Render(PrefixStore("a.json", 2), QueryAll)
    /\ text # Render(PrefixStore("a.json", 0), QueryAll)
    /\ text # Render(PrefixStore("a.json", 4), QueryAll)

(***************************************************************************)
(* The interner: claim C19.                                                *)
(***************************************************************************)
\* contents asked of the interner: some it holds in some states, one it never holds
SomeContents == {"name", "a", "m1", "never seen"}

\* in this interner a handle is one content and a content one handle, and
\* intern_str answers accordingly
HandlesMatchContents(interner) ==
    /\ \A n \in 1..Len(interner) : \A m \in 1..(n - 1) : interner[m] # interner[n]
    /\ \A n \in 1..Len(interner) :
           InternStr(interner, interner[n]) = [interner |-> interner, h |-> n]
    /\ \A c1, c2 \in SomeContents :
           LET r1 == InternStr(interner, c1)
               r2 == InternStr(r1.interner, c2)
           IN  /\ r1.h = r2.h <=> c1 = c2
               /\ r2.interner[r1.h] = c1
               /\ r2.interner[r2.h] = c2

\* C19: after any sequence of intern_str calls, and across clear, which does
\* not reset the interner, two handles returned by intern_str are the same
\* allocation if and only if they were asked for with equal content: equal
\* content gets the handle made at first sight, which stays what it is, and
\* different content gets different handles.
C19_HandleIdentityIsContentEquality ==
    [][/\ last_op = "new" => HandlesMatchContents(logs.interner)
       /\ logs'.interner # logs.interner => HandlesMatchContents(logs'.interner)
       /\ Len(logs'.interner) >= Len(logs.interner)
       /\ \A n \in 1..Len(logs.interner) : logs'.interner[n] = logs.interner[n]]_vars

\* LineM1 ingested after a clear that followed LineM2: its target "a" has
\* the handle made for LineM2, its message "m1" a new one
C19_Witness ==
    /\ panicked = "none"
    /\ DOMAIN logs.messages = {0}
    /\ logs.interner = <<"<all spans>", "message", "name", "", "s", "a", "m2", "m1">>
    /\ logs.messages[0].target = 6
    /\ logs.messages[0].fields = <<[k |-> 2, v |-> [t |-> "S", h |-> 8, i |-> 0]]>>

(***************************************************************************)
(* The order of events: claim C20.                                         *)
(***************************************************************************)
IsPrefix(s1, s2) == Len(s1) <= Len(s2) /\ SubSeq(s2, 1, Len(s1)) = s1

\* the new store after LineM1
FreshThenM1 == AddJsonMessage(LogsInnerNew, LineM1).log

\* C20: children are recorded in arrival order.  On a fresh store a line
\* without spans and with message m1, then a line with the spans [{name: s}]
\* and message m2, give root.events = [Message(m1), Span(s)] and s.events =
\* [Message(m2)], and string_query(All) shows m1, then the header [s], then
\* m2; add_json_message only appends to the events lists: the entries there
\* before the call stay, in their order, at the front.
C20_ArrivalOrder ==
    [][/\ last_op' = "add_json_message" =>
              \A id \in DOMAIN logs.spans :
                  /\ id \in DOMAIN logs'.spans
                  /\ IsPrefix(logs.spans[id].events, logs'.spans[id].events)
       /\ (logs = FreshThenM1 /\ DoAddJsonMessage(LineM2)) =>
              /\ DOMAIN logs'.spans = {ROOT_SPAN, 1}
              /\ logs'.spans[ROOT_SPAN].events = <<EventMessage(0), EventSpan(1)>>
              /\ logs'.spans[1].events = <<EventMessage(1)>>
              /\ Str(logs', logs'.spans[1].name) = "s"
              /\ RawPairs(logs', logs'.messages[0].fields) = LineM1.fields
              /\ RawPairs(logs', logs'.messages[1].fields) = LineM2.fields
              /\ StringQuery(logs', QueryAll).text
                     = "[<all spans>]\n" \o "    [INFO ] m1\n" \o "    [s]\n"
                       \o "        [ERROR] m2\n"]_vars

\* LineM1 and then LineM2 ingested by the new store
C20_Witness ==
    /\ last_op = "add_json_message"
    /\ logs = AddJsonMessage(FreshThenM1, LineM2).log
    /\ logs.spans[ROOT_SPAN].events = <<EventMessage(0), EventSpan(1)>>

(***************************************************************************)
(* The columns of a rendered message: claim C21.                           *)
(***************************************************************************)
\* the rendered line of a message under the root
MessageLine(log, id) == PrintMessage(log, 0, log.messages[id])

\* the column of that line at which the fields and the message text start
TextColumn(log, id) ==
    LET entry == log.messages[id]
        message == FindMessage(log, entry.fields)
    IN  Len(MessageLine(log, id))
        - Len(PrintMessageFields(log, entry.fields, 1))
        - (IF message.some THEN Len(PrintVal(log, message.v)) ELSE 0)
        - Len("\n")

\* C21: in a rendered message line an absent level and an absent timestamp
\* are each replaced by blanks as wide as the rendered field, so the fields
\* and the message text start at the same column in every line, whether or
\* not the level and the timestamp are present.
C21_PlaceholdersKeepColumn ==
    \A id1, id2 \in DOMAIN logs.messages : TextColumn(logs, id1) = TextColumn(logs, id2)

(***************************************************************************)
(* The ids of a store generation: claim C22.                               *)
(***************************************************************************)
IdsFillRange(log) ==
    /\ DOMAIN log.spans = 0..(log.next_span_id - 1)
    /\ DOMAIN log.messages = 0..(log.next_message_id - 1)

\* C22: SpanIds and MessageIds are given out in increasing order within one
\* generation of the store and start again at 1 and 0 on clear: in every
\* reachable state the keys of the spans map are exactly 0 .. next_span_id - 1
\* and the keys of the messages map exactly 0 .. next_message_id - 1.
C22_IdsFillRange ==
    [][/\ last_op = "new" => IdsFillRange(logs)
       /\ IdsFillRange(logs')
       /\ last_op' = "clear" => (logs'.next_span_id = 1 /\ logs'.next_message_id = 0)
       /\ last_op' = "add_json_message" =>
              /\ logs'.next_span_id >= logs.next_span_id
              /\ logs'.next_message_id >= logs.next_message_id
              /\ DOMAIN logs'.spans \ DOMAIN logs.spans
                     = logs.next_span_id..(logs'.next_span_id - 1)
              /\ DOMAIN logs'.messages \ DOMAIN logs.messages
                     = logs.next_message_id..(logs'.next_message_id - 1)]_vars

\* the second generation: LineYak ingested after a clear that followed LineM2
C22_Witness ==
    /\ panicked = "none"
    /\ last_op = "add_json_message"
    /\ logs.next_span_id = 3
    /\ logs.next_message_id = 1
    /\ Len(logs.interner) = 15
    /\ DOMAIN logs.spans = {0, 1, 2}

(***************************************************************************)
(* The check-in of the read loop: claim C23.                               *)
(***************************************************************************)
\* a read_line whose check of the counter makes the processor lock the mailbox
InspectsMailbox ==
    /\ pc = "read"
    /\ lines_since_checkin' = lines_since_checkin + 1
    /\ CheckinDue(lines_since_checkin')

\* C23: while it streams a file the worker inspects the mailbox once every
\* 1000 lines, at checkpoints 1000 lines apart, and not on the lines in
\* between: none of the 999 reads before a read that inspects the mailbox
\* has inspected it.
C23_CheckinEvery1000Lines ==
    [][InspectsMailbox =>
          \A n \in (lines_since_checkin' - (LINE_COUNT_CHECKIN - 1))..(lines_since_checkin' - 1) :
              n >= 1 => ~CheckinDue(n)]_vars

(***************************************************************************)
(* The take of a task: claim C24.                                          *)
(***************************************************************************)
\* C24: the worker blocks until a task is present and only then takes it: in
\* every execution, also when the wait on the condition variable returns
\* with no task posted, the take finds a task in the mailbox, and the
\* mailbox is empty right after the take.
C24_TakeFindsTask ==
    /\ [](panicked # "take")
    /\ [][hist.takes' # hist.takes => (task.some /\ ~task'.some)]_vars

(***************************************************************************)
(* The render cache under ingestion and clear: claim C25.                  *)
(***************************************************************************)
\* C25: ingestion does not invalidate the render cache and clear does.
\* add_json_message leaves the cached query and text as they are, so
\* string_query(q), any number of add_json_message calls and string_query(q)
\* again give the text of the first call, whatever the store holds by then;
\* clear() empties the cache, and the next string_query, for any query,
\* computes its text from the store as it is after the clear.
C25_CacheOutlivesIngestNotClear ==
    [][/\ last_op' = "add_json_message" =>
              /\ logs'.cur_string = logs.cur_string
              /\ logs'.last_query = logs.last_query
       /\ last_op' = "clear" =>
              /\ ~logs'.cur_string.some
              /\ \A query \in Queries(logs') :
                     /\ StringQuery(logs', query).computed
                     /\ StringQuery(logs', query).text = Render(logs', query)
       /\ \A query \in Queries(logs) : DoStringQuery(query) =>
              /\ (logs.cur_string.some /\ logs.last_query = query)
                     => text' = logs.cur_string.text
              /\ ~logs.cur_string.some => text' = Render(logs, query)]_vars

\* the text of span 1 asked for, another message ingested into span 1, and
\* the text asked for again: the answer is the cached text of the first call
C25_Witness ==
    /\ last_op = "string_query"
    /\ panicked = "none"
    /\ logs.last_query = QuerySpan(1)
    /\ 1 \in DOMAIN logs.spans
    /\ logs.cur_string = [some |-> TRUE, text |-> text]
    /\ text # Render(logs, QuerySpan(1))

(***************************************************************************)
(* Ingestion after clear and on a new store: claim C26.                    *)
(***************************************************************************)
\* the tree of a store by content: span ids, names, fields, events lists,
\* dedup indexes and messages, with the text behind every interned handle
TreeOf(log) ==
    [spans |-> [id \in DOMAIN log.spans |->
                   [name |-> Str(log, log.spans[id].name),
                    fields |-> RawPairs(log, log.spans[id].fields),
                    events |-> log.spans[id].events,
                    json_subspan_keys |->
                        {<<RawPairs(log, k), log.spans[id].json_subspan_keys[k]>> :
                             k \in DOMAIN log.spans[id].json_subspan_keys}]],
     messages |-> [id \in DOMAIN log.messages |->
                      [timestamp |-> log.messages[id].timestamp,
                       level |-> log.messages[id].level,
                       target |-> Str(log, log.messages[id].target),
                       fields |-> RawPairs(log, log.messages[id].fields)]]]

\* C26: ingestion after clear is ingestion on a new store: whatever was
\* ingested before, the tree right after clear() is the tree of a new store,
\* and a line ingested next gives the tree that the line gives on a new
\* store (span ids, names, fields, events lists, dedup indexes, messages).
C26_ClearIsNewStore ==
    [][/\ last_op' = "clear" => TreeOf(logs') = TreeOf(LogsInnerNew)
       /\ \A input \in StoreLines :
              (last_op = "clear" /\ DoAddJsonMessage(input)) =>
                  /\ panicked' = "none"
                  /\ TreeOf(logs') = TreeOf(AddJsonMessage(LogsInnerNew, input).log)]_vars

(***************************************************************************)
(* The store and the status: claim C27.                                    *)
(***************************************************************************)
NotReading == status \in {"NotStarted", "Done", "IoFailed", "Cancelled"}

\* C27 as stated: the worker changes the store (clear or add_json_message)
\* only while the shared status is Reading: whenever the status is
\* NotStarted, Done, IoFailed or Cancelled the worker is not in the middle of
\* an OpenLogs task and the store is the one that was there when that status
\* was written.
C27_MutatesOnlyWhileReading ==
    /\ [](NotReading => pc \in {"lock", "wait", "dead"})
    /\ [][NotReading => logs' = logs]_vars

\* C27, amended: add_json_message is called only while the shared status is
\* Reading, but clear() is called before Reading is written, under whatever
\* status the run before left: whenever the status is NotStarted, Done,
\* IoFailed or Cancelled the worker is outside the read loop (waiting, or at
\* the start of an OpenLogs task, about to clear or to write Reading) and
\* the store is the one that was there when that status was written or, once
\* the next OpenLogs task has been taken, that store cleared.
C27_IngestsOnlyWhileReading ==
    /\ [](NotReading => pc \in {"lock", "wait", "dead", "clear", "set_reading"})
    /\ [][(pc = "ingest" /\ pc' # "ingest") => status = "Reading"]_vars
    /\ [][(NotReading /\ logs' # logs) =>
              /\ pc = "clear"
              /\ pc' = "set_reading"
              /\ logs' = Clear(logs)
              /\ status' = status]_vars

\* b.json has ended with Done, another OpenLogs task has been taken and the
\* store cleared, and the status still says Done
C27_Witness ==
    /\ status = "Done"
    /\ pc = "set_reading"
    /\ last_op = "clear"
    /\ taken.kind = "OpenLogs"
    /\ Len(logs.interner) > 4
    /\ StoreIsEmpty

(***************************************************************************)
(* The span picked in the tree view: claim C28.                            *)
(***************************************************************************)
\* C28: in every interleaving of the picking of spans in the shell, the
\* posting of OpenLogs and the worker's clear and ingestion, every
\* string_query(Span(id)) of the shell names an id that is in the spans map
\* when the query runs under the store lock: a span picked before a new
\* file is opened is not queried after the clear has removed it, and
\* string_query does not panic.
C28_QueriedSpanIsPresent ==
    /\ [](panicked # "string_query")
    /\ [][(UiLogsTreeText /\ cur_span.some) => cur_span.v \in DOMAIN logs.spans]_vars

(***************************************************************************)
(* The locking of the two threads: claim C29.                              *)
(***************************************************************************)
\* C29: neither the shell nor the worker holds two of the three locks (task
\* mailbox, status cell, log store) at the same time, so no interleaving
\* reaches a deadlock: a thread that holds a guard stands before the
\* statements that guard is for, which it can run to the drop of the guard
\* with no other lock and no wait in them.
\* The only wait that no step of the other thread is bound to end is the
\* worker's condvar.wait on the empty mailbox: when the mailbox holds a task
\* the waiting worker has been notified.
C29_OneLockAtATime ==
    /\ Cardinality(held.worker) <= 1
    /\ Cardinality(held.shell) <= 1
    /\ held.worker \cap held.shell = {}
    /\ held.worker # {} =>
           (held.worker = {WorkerNeeds} /\ pc # "dead" /\ WorkerMayStep)
    /\ held.shell # {} =>
           (held.shell = {held.handler} /\ ShellMayStep(held.handler))
    /\ (pc = "wait" /\ held.worker = {} /\ task.some) => notified

\* at the check-in the worker has dropped the guard of the mailbox and holds
\* the one of the status, while the shell renders under the guard of the store
C29_Witness ==
    /\ pc = "set_cancelled"
    /\ held.worker = {"status"}
    /\ held.shell = {"logs"}
    /\ task.some

(***************************************************************************)
(* The fate of a posted task: claim C30.                                   *)
(***************************************************************************)
\* C30: under weak fairness of the worker, every task posted to the mailbox
\* is eventually taken by the worker or overwritten by a later post.  In the
\* form of finite runs: a task is never in the mailbox of a worker that has
\* ended, which takes no task any more, so that the last task the shell posts
\* is one the worker can still take.
C30_PostedTaskHasWorker == task.some => pc # "dead"

(***************************************************************************)
(* The shape of the events lists: claim C31.                               *)
(***************************************************************************)
\* the places of the events lists of the store that hold the entry ev
PlacesOf(log, ev) ==
    UNION {{<<p, n>> : n \in {m \in 1..Len(log.spans[p].events) :
                                  log.spans[p].events[m] = ev}} :
           p \in DOMAIN log.spans}

\* C31: in every reachable state the events lists form a tree rooted at
\* span 0: every span id but the root's occurs as Span(id) exactly once over
\* all events lists, in the events of a span with a smaller id; every
\* message id occurs as Message(id) exactly once over all events lists; the
\* root occurs in no events list.
C31_EventsFormTree ==
    /\ \A id \in DOMAIN logs.spans \ {logs.root_span} :
           /\ Cardinality(PlacesOf(logs, EventSpan(id))) = 1
           /\ \A place \in PlacesOf(logs, EventSpan(id)) : place[1] < id
    /\ \A id \in DOMAIN logs.messages :
           Cardinality(PlacesOf(logs, EventMessage(id))) = 1
    /\ PlacesOf(logs, EventSpan(logs.root_span)) = {}

\* after a clear, a line whose context is found in the index the clear kept
\* has put its message into the span that now has the id of the index entry:
\* span 1 holds a nested span and a message, span 2 a message
C31_Witness ==
    /\ panicked = "none"
    /\ DOMAIN logs.spans = {0, 1, 2}
    /\ logs.spans[0].events = <<EventSpan(1)>>
    /\ EventSpan(2) \in {logs.spans[1].events[n] : n \in 1..Len(logs.spans[1].events)}
    /\ EventIds(logs.spans[1], "Message") # {}
    /\ EventIds(logs.spans[2], "Message") # {}

====
